---- MODULE Spec2Model ----
(***************************************************************************)
(* The five root-finding scripts of hw2 (bisection, false position,        *)
(* secant, Newton, fixed point) as one state machine.  A run is one call   *)
(* of an engine function; one action is one pass through a loop body or    *)
(* one straight-line block of the function.                                *)
(*                                                                         *)
(* Numbers are exact rationals <<numerator, denominator>> in lowest terms  *)
(* with a positive denominator.  The function handles are polynomials      *)
(* (c2*x^2 + c1*x + c0) / dn with small integer coefficients.              *)
(***************************************************************************)
EXTENDS Integers, Sequences, FiniteSets, TLC

VARIABLES engine, func, tolerance, max_iter, pc, i, locals, iterations,
          rawError, printed, root, warned, written, sink, run

vars == <<engine, func, tolerance, max_iter, pc, i, locals, iterations,
          rawError, printed, root, warned, written, sink, run>>

(***************************************************************************)
(* Bounds of the model.                                                    *)
(***************************************************************************)
\* seeds are the half-integers k/2, k in -SeedBound..SeedBound
SeedBound == 3
\* c0 ranges over -CoefBound..CoefBound
CoefBound == 2
\* max_iter ranges over 1..MaxIterBound
MaxIterBound == 3
\* an estimate is iterated on only while numerator and denominator are
\* at most MaxMag in magnitude
MaxMag == 12
\* magnitude at which adding 0.5 to a float no longer changes it
\* (2^53 for a double; scaled down)
AbsorbAt == 4

WithinBounds(x) == x[1] <= MaxMag /\ -x[1] <= MaxMag /\ x[2] <= MaxMag

(***************************************************************************)
(* Arithmetic.                                                             *)
(***************************************************************************)
Abs(k) == IF k < 0 THEN -k ELSE k

RECURSIVE Gcd(_, _)
Gcd(m, n) == IF n = 0 THEN m ELSE Gcd(n, m % n)

Rat(n, d) ==
    LET s == IF d < 0 THEN -1 ELSE 1
        g == Gcd(Abs(n), Abs(d))
    IN  <<(s * n) \div g, (s * d) \div g>>

Zero == <<0, 1>>
NA == <<>>

Add(x, y) == Rat(x[1] * y[2] + y[1] * x[2], x[2] * y[2])
Sub(x, y) == Rat(x[1] * y[2] - y[1] * x[2], x[2] * y[2])
Mul(x, y) == Rat(x[1] * y[1], x[2] * y[2])
Div(x, y) == Rat(x[1] * y[2], x[2] * y[1])
Less(x, y) == x[1] * y[2] < y[1] * x[2]
AbsVal(x) == <<Abs(x[1]), x[2]>>
IsZero(x) == x[1] = 0

\* a caller-supplied function handle, evaluated at x
Apply(f, x) ==
    Div(Add(Add(Mul(<<f.c2, 1>>, Mul(x, x)), Mul(<<f.c1, 1>>, x)), <<f.c0, 1>>),
        <<f.dn, 1>>)

\* the handle of the derivative of f
Derivative(f) == [c2 |-> 0, c1 |-> 2 * f.c2, c0 |-> f.c1, dn |-> f.dn]

RECURSIVE Pow10(_)
Pow10(k) == IF k = 0 THEN 1 ELSE 10 * Pow10(k - 1)

\* the first k decimal digits of r/d (0 <= r < d) and the remainder left
RECURSIVE FracDigits(_, _, _)
FracDigits(r, d, k) ==
    IF k = 0 THEN <<0, r>>
    ELSE LET prev == FracDigits(r, d, k - 1)
         IN  <<prev[1] * 10 + (prev[2] * 10) \div d, (prev[2] * 10) % d>>

\* round(x, nd): <<sign, whole part, fraction in units of 10^-nd>>,
\* ties to even
Round(x, nd) ==
    LET n == Abs(x[1])
        d == x[2]
        whole == n \div d
        fr == FracDigits(n % d, d, nd)
        last == IF nd = 0 THEN whole ELSE fr[1]
        up == 2 * fr[2] > d \/ (2 * fr[2] = d /\ last % 2 = 1)
        scaled == fr[1] + (IF up THEN 1 ELSE 0)
        sgn == IF x[1] < 0 THEN -1 ELSE 1
    IN  IF scaled = Pow10(nd) THEN <<sgn, whole + 1, 0>>
        ELSE <<sgn, whole, scaled>>

RoundOrNA(x, nd) == IF x = NA THEN NA ELSE Round(x, nd)

\* int(-math.log10(t)) for 0 < t < 10
RECURSIVE NegLog10Int(_)
NegLog10Int(t) ==
    IF Less(<<1, 1>>, Mul(t, <<10, 1>>)) THEN 0
    ELSE 1 + NegLog10Int(Mul(t, <<10, 1>>))

DecimalPlaces(tol) == NegLog10Int(tol) + 1

\* the precision bisection and Newton round their records to
RoundDigits == 7

(***************************************************************************)
(* Inputs.                                                                 *)
(***************************************************************************)
Engines == {"bisection", "false_position", "secant", "newton", "fixed_point"}

Seeds == {Rat(k, 2) : k \in -SeedBound..SeedBound}

Tolerances == {<<1, 10>>, <<1, 1>>}

Funcs(e) ==
    [c2 : {0, 1}, c1 : {-1, 0, 1}, c0 : -CoefBound..CoefBound,
     dn : IF e = "fixed_point" THEN {1, 2} ELSE {1}]

\* the arguments of the call, as the function's first locals
EntryLocals(e, f, s0, s1) ==
    CASE e = "bisection" -> [a |-> s0, b |-> s1]
      [] e = "false_position" -> [a |-> s0, b |-> s1]
      [] e = "secant" -> [p0 |-> s0, p1 |-> s1]
      [] e = "newton" -> [x0 |-> s0, d_func |-> Derivative(f)]
      [] e = "fixed_point" -> [p0 |-> s0]

\* the seeds a call may be given: bisection and false position document a as
\* the lower and b as the upper bound of an interval, secant takes any two
\* guesses, Newton and fixed point take one
SeedsFit(e, s0, s1) ==
    CASE e \in {"bisection", "false_position"} -> Less(s0, s1)
      [] e = "secant" -> TRUE
      [] OTHER -> s1 = s0

Init ==
    /\ engine \in Engines
    /\ func \in Funcs(engine)
    /\ tolerance \in Tolerances
    /\ max_iter \in 1..MaxIterBound
    /\ \E s0 \in Seeds, s1 \in Seeds :
          /\ SeedsFit(engine, s0, s1)
          /\ locals = EntryLocals(engine, func, s0, s1)
    /\ pc = "entry"
    /\ i = 0
    /\ iterations = <<>>
    /\ rawError = <<>>
    /\ printed = "none"
    /\ root = NA
    /\ warned = FALSE
    /\ written = FALSE
    /\ sink = <<>>
    /\ run = 1

(***************************************************************************)
(* Pieces shared by the loops.                                             *)
(***************************************************************************)
\* the comparison turned around: error > tolerance
AboveTolerance(error, tol) == Less(tol, error)

\* the comparison made non-strict: error <= tolerance
AtOrBelowTolerance(error, tol) == ~Less(tol, error)

\* error < tolerance
BelowTolerance(error, tol) == Less(error, tol)

\* a range that yields stop as well
RangeExhaustedLate(v, stop) == v > stop

\* for v in range(start, stop): the loop is over when v reaches stop
RangeExhausted(v, stop) == v >= stop

\* a range that steps by two
RangeSkip(v) == v + 2

\* the next value a range yields
RangeNext(v) == v + 1

(***************************************************************************)
(* Bisection.                                                              *)
(***************************************************************************)
\* a + 0.5 in floating point
AddHalf(x) == IF Less(x, <<AbsorbAt, 1>>) THEN Add(x, <<1, 2>>) ELSE x

\* b - 0.5 in floating point
SubHalf(x) == IF Less(<<-AbsorbAt, 1>>, x) THEN Sub(x, <<1, 2>>) ELSE x

\* func(a) * func(b) >= 0
NotBracketed(f, a, b) == ~Less(Mul(Apply(f, a), Apply(f, b)), Zero)

BisectionAdjust ==
    /\ engine = "bisection"
    /\ pc = "entry"
    /\ NotBracketed(func, locals.a, locals.b)
    /\ locals' = [locals EXCEPT !.a = AddHalf(locals.a), !.b = SubHalf(locals.b)]
    /\ UNCHANGED <<engine, func, tolerance, max_iter, pc, i, iterations,
                   rawError, printed, root, warned, written, sink, run>>

BisectionStart ==
    /\ engine = "bisection"
    /\ pc = "entry"
    /\ ~NotBracketed(func, locals.a, locals.b)
    /\ iterations' = <<>>
    /\ rawError' = <<>>
    /\ locals' = [a |-> locals.a, b |-> locals.b, an |-> locals.a, bn |-> locals.b]
    /\ i' = 1
    /\ pc' = "loop"
    /\ UNCHANGED <<engine, func, tolerance, max_iter, printed, root, warned,
                   written, sink, run>>

\* the division binding tighter than the sum: an + bn / 2
MidpointPrecedence(an, bn) == Add(an, Div(bn, <<2, 1>>))

\* pn = (an + bn) / 2
Midpoint(an, bn) == Div(Add(an, bn), <<2, 1>>)

\* error = (bn - an) / 2
HalfWidth(an, bn) == Div(Sub(bn, an), <<2, 1>>)

\* the exact-zero test left out
BisectionStopNoZero(error, fpn, tol) == Less(error, tol)

\* error < tolerance or fpn == 0
BisectionStop(error, fpn, tol) == BelowTolerance(error, tol) \/ IsZero(fpn)

\* the sign test turned around: func(an) * fpn > 0
RootInLeftFlipped(fa, fp) == Less(Zero, Mul(fa, fp))

\* func(an) * fpn < 0
RootInLeft(fa, fp) == Less(Mul(fa, fp), Zero)

BisectionIter ==
    /\ engine = "bisection"
    /\ pc = "loop"
    /\ ~RangeExhausted(i, max_iter + 1)
    /\ LET an == locals.an
           bn == locals.bn
           pn == Midpoint(an, bn)
           fpn == Apply(func, pn)
           error == HalfWidth(an, bn)
           rec == [n |-> i, an |-> Round(an, RoundDigits),
                   bn |-> Round(bn, RoundDigits), pn |-> Round(pn, RoundDigits),
                   fpn |-> Round(fpn, RoundDigits),
                   error |-> Round(error, RoundDigits)]
           seen == [a |-> locals.a, b |-> locals.b, an |-> an, bn |-> bn,
                    pn |-> pn, fpn |-> fpn, error |-> error]
       IN  /\ iterations' = Append(iterations, rec)
           /\ rawError' = Append(rawError, error)
           /\ IF BisectionStop(error, fpn, tolerance)
              THEN /\ printed' = "converged"
                   /\ root' = pn
                   /\ locals' = seen
                   /\ pc' = "write"
                   /\ i' = i
              ELSE /\ locals' = IF RootInLeft(Apply(func, an), fpn)
                                THEN [seen EXCEPT !.bn = pn]
                                ELSE [seen EXCEPT !.an = pn]
                   /\ i' = RangeNext(i)
                   /\ UNCHANGED <<printed, root, pc>>
    /\ UNCHANGED <<engine, func, tolerance, max_iter, warned, written, sink, run>>

BisectionExhausted ==
    /\ engine = "bisection"
    /\ pc = "loop"
    /\ RangeExhausted(i, max_iter + 1)
    /\ printed' = "maxiter"
    /\ pc' = "write"
    /\ UNCHANGED <<engine, func, tolerance, max_iter, i, locals, iterations,
                   rawError, root, warned, written, sink, run>>

BisectionWrite ==
    /\ engine = "bisection"
    /\ pc = "write"
    /\ written' = TRUE
    /\ sink' = iterations
    /\ pc' = "done"
    /\ UNCHANGED <<engine, func, tolerance, max_iter, i, locals, iterations,
                   rawError, printed, root, warned, run>>

NextBisection ==
    \/ BisectionAdjust
    \/ BisectionStart
    \/ BisectionIter
    \/ BisectionExhausted
    \/ BisectionWrite

(***************************************************************************)
(* False position.                                                         *)
(***************************************************************************)
\* p_next = current_a - fa * (current_b - current_a) / (fb - fa)
FalsePositionFormula(ca, cb, fa, fb) ==
    Sub(ca, Div(Mul(fa, Sub(cb, ca)), Sub(fb, fa)))

FalsePositionStart ==
    /\ engine = "false_position"
    /\ pc = "entry"
    /\ LET a == locals.a
           b == locals.b
           dp == DecimalPlaces(tolerance)
       IN  /\ warned' = NotBracketed(func, a, b)
           /\ iterations' = <<[n |-> 0, p |-> Round(a, dp), error |-> NA],
                              [n |-> 1, p |-> Round(b, dp),
                               error |-> Round(AbsVal(Sub(b, a)), dp)]>>
           /\ rawError' = <<NA, AbsVal(Sub(b, a))>>
           /\ locals' = [a |-> a, b |-> b, decimal_places |-> dp, p_prev |-> b,
                         current_a |-> a, current_b |-> b]
    /\ i' = 2
    /\ pc' = "loop"
    /\ UNCHANGED <<engine, func, tolerance, max_iter, printed, root, written,
                   sink, run>>

FalsePositionIter ==
    /\ engine = "false_position"
    /\ pc = "loop"
    /\ ~RangeExhausted(i, max_iter + 2)
    /\ WithinBounds(locals.current_a)
    /\ WithinBounds(locals.current_b)
    /\ LET ca == locals.current_a
           cb == locals.current_b
           fa == Apply(func, ca)
           fb == Apply(func, cb)
       IN  IF IsZero(Sub(fb, fa))
           THEN /\ printed' = "divzero"
                /\ pc' = "write"
                /\ UNCHANGED <<i, locals, iterations, rawError, root>>
           ELSE LET p_next == FalsePositionFormula(ca, cb, fa, fb)
                    error == AbsVal(Sub(p_next, locals.p_prev))
                    dp == locals.decimal_places
                IN  /\ iterations' = Append(iterations,
                           [n |-> i, p |-> Round(p_next, dp),
                            error |-> Round(error, dp)])
                    /\ rawError' = Append(rawError, error)
                    /\ IF BelowTolerance(error, tolerance)
                       THEN /\ printed' = "converged"
                            /\ root' = p_next
                            /\ pc' = "write"
                            /\ UNCHANGED <<i, locals>>
                       ELSE /\ locals' =
                                 IF RootInLeft(Apply(func, ca), Apply(func, p_next))
                                 THEN [locals EXCEPT !.current_b = p_next,
                                                     !.p_prev = p_next]
                                 ELSE [locals EXCEPT !.current_a = p_next,
                                                     !.p_prev = p_next]
                            /\ i' = RangeNext(i)
                            /\ UNCHANGED <<printed, root, pc>>
    /\ UNCHANGED <<engine, func, tolerance, max_iter, warned, written, sink, run>>

FalsePositionExhausted ==
    /\ engine = "false_position"
    /\ pc = "loop"
    /\ RangeExhausted(i, max_iter + 2)
    /\ printed' = "maxiter"
    /\ pc' = "write"
    /\ UNCHANGED <<engine, func, tolerance, max_iter, i, locals, iterations,
                   rawError, root, warned, written, sink, run>>

FalsePositionWrite ==
    /\ engine = "false_position"
    /\ pc = "write"
    /\ written' = TRUE
    /\ sink' = iterations
    /\ pc' = "done"
    /\ UNCHANGED <<engine, func, tolerance, max_iter, i, locals, iterations,
                   rawError, printed, root, warned, run>>

NextFalsePosition ==
    \/ FalsePositionStart
    \/ FalsePositionIter
    \/ FalsePositionExhausted
    \/ FalsePositionWrite

(***************************************************************************)
(* Secant.                                                                 *)
(***************************************************************************)
\* p_next = current_p - (func(current_p) * (current_p - current_p_minus_1))
\*                      / (func(current_p) - func(current_p_minus_1))
SecantFormula(f, pm1, p) ==
    Sub(p, Div(Mul(Apply(f, p), Sub(p, pm1)), Sub(Apply(f, p), Apply(f, pm1))))

SecantStart ==
    /\ engine = "secant"
    /\ pc = "entry"
    /\ LET p0 == locals.p0
           p1 == locals.p1
           dp == DecimalPlaces(tolerance)
       IN  /\ iterations' = <<[n |-> 0, p |-> Round(p0, dp),
                               fp |-> Round(Apply(func, p0), dp), error |-> NA],
                              [n |-> 1, p |-> Round(p1, dp),
                               fp |-> Round(Apply(func, p1), dp),
                               error |-> Round(AbsVal(Sub(p1, p0)), dp)]>>
           /\ rawError' = <<NA, AbsVal(Sub(p1, p0))>>
           /\ locals' = [p0 |-> p0, p1 |-> p1, decimal_places |-> dp,
                         current_p_minus_1 |-> p0, current_p |-> p1]
    /\ i' = 2
    /\ pc' = "loop"
    /\ UNCHANGED <<engine, func, tolerance, max_iter, printed, root, warned,
                   written, sink, run>>

SecantIter ==
    /\ engine = "secant"
    /\ pc = "loop"
    /\ ~RangeExhausted(i, max_iter + 2)
    /\ WithinBounds(locals.current_p_minus_1)
    /\ WithinBounds(locals.current_p)
    /\ LET pm1 == locals.current_p_minus_1
           p == locals.current_p
       IN  IF IsZero(Sub(Apply(func, p), Apply(func, pm1)))
           THEN /\ printed' = "divzero"
                /\ pc' = "write"
                /\ UNCHANGED <<i, locals, iterations, rawError, root>>
           ELSE LET p_next == SecantFormula(func, pm1, p)
                    error == AbsVal(Sub(p_next, p))
                    dp == locals.decimal_places
                IN  /\ iterations' = Append(iterations,
                           [n |-> i, p |-> Round(p_next, dp),
                            fp |-> Round(Apply(func, p_next), dp),
                            error |-> Round(error, dp)])
                    /\ rawError' = Append(rawError, error)
                    /\ IF BelowTolerance(error, tolerance)
                       THEN /\ printed' = "converged"
                            /\ root' = p_next
                            /\ pc' = "write"
                            /\ UNCHANGED <<i, locals>>
                       ELSE /\ locals' = [locals EXCEPT !.current_p_minus_1 = p,
                                                        !.current_p = p_next]
                            /\ i' = RangeNext(i)
                            /\ UNCHANGED <<printed, root, pc>>
    /\ UNCHANGED <<engine, func, tolerance, max_iter, warned, written, sink, run>>

SecantExhausted ==
    /\ engine = "secant"
    /\ pc = "loop"
    /\ RangeExhausted(i, max_iter + 2)
    /\ printed' = "maxiter"
    /\ pc' = "write"
    /\ UNCHANGED <<engine, func, tolerance, max_iter, i, locals, iterations,
                   rawError, root, warned, written, sink, run>>

SecantWrite ==
    /\ engine = "secant"
    /\ pc = "write"
    /\ written' = TRUE
    /\ sink' = iterations
    /\ pc' = "done"
    /\ UNCHANGED <<engine, func, tolerance, max_iter, i, locals, iterations,
                   rawError, printed, root, warned, run>>

NextSecant ==
    \/ SecantStart
    \/ SecantIter
    \/ SecantExhausted
    \/ SecantWrite

(***************************************************************************)
(* Newton.                                                                 *)
(***************************************************************************)
\* x_next = xn - fx / dfx
NewtonFormula(xn, fx, dfx) == Sub(xn, Div(fx, dfx))

NewtonStart ==
    /\ engine = "newton"
    /\ pc = "entry"
    /\ iterations' = <<>>
    /\ rawError' = <<>>
    /\ locals' = [x0 |-> locals.x0, d_func |-> locals.d_func, xn |-> locals.x0,
                  error |-> NA, x_next |-> NA, step |-> NA]
    /\ i' = 0
    /\ pc' = "loop"
    /\ UNCHANGED <<engine, func, tolerance, max_iter, printed, root, warned,
                   written, sink, run>>

NewtonIter ==
    /\ engine = "newton"
    /\ pc = "loop"
    /\ ~RangeExhausted(i, max_iter)
    /\ WithinBounds(locals.xn)
    /\ LET xn == locals.xn
           fx == Apply(func, xn)
           dfx == Apply(locals.d_func, xn)
       IN  IF IsZero(dfx)
           THEN /\ printed' = "zeroderiv"
                /\ pc' = "done"
                /\ UNCHANGED <<i, locals, iterations, rawError, root>>
           ELSE LET x_next == NewtonFormula(xn, fx, dfx)
                    step == AbsVal(Sub(x_next, xn))
                IN  /\ iterations' = Append(iterations,
                           [n |-> i, xn |-> Round(xn, RoundDigits),
                            fx |-> Round(fx, RoundDigits),
                            dfx |-> Round(dfx, RoundDigits),
                            error |-> RoundOrNA(locals.error, RoundDigits)])
                    /\ rawError' = Append(rawError, locals.error)
                    /\ IF BelowTolerance(step, tolerance)
                       THEN /\ printed' = "converged"
                            /\ root' = x_next
                            /\ locals' = [locals EXCEPT !.x_next = x_next,
                                                        !.step = step]
                            /\ pc' = "write"
                            /\ i' = i
                       ELSE /\ locals' = [locals EXCEPT !.x_next = x_next,
                                              !.step = step, !.error = step,
                                              !.xn = x_next]
                            /\ i' = RangeNext(i)
                            /\ UNCHANGED <<printed, root, pc>>
    /\ UNCHANGED <<engine, func, tolerance, max_iter, warned, written, sink, run>>

NewtonExhausted ==
    /\ engine = "newton"
    /\ pc = "loop"
    /\ RangeExhausted(i, max_iter)
    /\ printed' = "maxiter"
    /\ pc' = "write"
    /\ UNCHANGED <<engine, func, tolerance, max_iter, i, locals, iterations,
                   rawError, root, warned, written, sink, run>>

NewtonWrite ==
    /\ engine = "newton"
    /\ pc = "write"
    /\ written' = TRUE
    /\ sink' = iterations
    /\ pc' = "done"
    /\ UNCHANGED <<engine, func, tolerance, max_iter, i, locals, iterations,
                   rawError, printed, root, warned, run>>

NextNewton ==
    \/ NewtonStart
    \/ NewtonIter
    \/ NewtonExhausted
    \/ NewtonWrite

(***************************************************************************)
(* Fixed point.                                                            *)
(***************************************************************************)
FixedPointStart ==
    /\ engine = "fixed_point"
    /\ pc = "entry"
    /\ iterations' = <<[n |-> 0, p |-> locals.p0, error |-> NA]>>
    /\ rawError' = <<NA>>
    /\ locals' = [p0 |-> locals.p0, p_prev |-> locals.p0]
    /\ i' = 1
    /\ pc' = "loop"
    /\ UNCHANGED <<engine, func, tolerance, max_iter, printed, root, warned,
                   written, sink, run>>

FixedPointIter ==
    /\ engine = "fixed_point"
    /\ pc = "loop"
    /\ ~RangeExhausted(i, max_iter + 1)
    /\ WithinBounds(locals.p_prev)
    /\ LET p_curr == Apply(func, locals.p_prev)
           error == AbsVal(Sub(p_curr, locals.p_prev))
       IN  /\ iterations' = Append(iterations,
                  [n |-> i, p |-> p_curr, error |-> error])
           /\ rawError' = Append(rawError, error)
           /\ IF BelowTolerance(error, tolerance)
              THEN /\ locals' = [p0 |-> locals.p0, p_prev |-> locals.p_prev,
                                 p_curr |-> p_curr, error |-> error]
                   /\ pc' = "write"
                   /\ i' = i
              ELSE /\ locals' = [p0 |-> locals.p0, p_prev |-> p_curr,
                                 p_curr |-> p_curr, error |-> error]
                   /\ i' = RangeNext(i)
                   /\ pc' = pc
    /\ UNCHANGED <<engine, func, tolerance, max_iter, printed, root, warned,
                   written, sink, run>>

\* return pd.DataFrame(iterations), after a break or when the range is used up
FixedPointReturn ==
    /\ engine = "fixed_point"
    /\ pc = "write" \/ (pc = "loop" /\ RangeExhausted(i, max_iter + 1))
    /\ written' = TRUE
    /\ sink' = iterations
    /\ pc' = "done"
    /\ UNCHANGED <<engine, func, tolerance, max_iter, i, locals, iterations,
                   rawError, printed, root, warned, run>>

NextFixedPoint ==
    \/ FixedPointStart
    \/ FixedPointIter
    \/ FixedPointReturn

(***************************************************************************)
(* The round trip: the caller feeds the root of a converged run back into  *)
(* the same engine, as the initial guess (Newton, fixed point) or as the   *)
(* midpoint of the initial bracket (bisection).                            *)
(***************************************************************************)
RestartHalfWidths == {<<1, 2>>, <<1, 1>>}

\* what the caller reads as the root of a finished run
ReportedRoot == IF engine = "fixed_point" THEN sink[Len(sink)].p ELSE root

\* what the caller reads as "the run converged"
ReportedConverged ==
    IF engine = "fixed_point"
    THEN /\ sink[Len(sink)].error # NA
         /\ Less(sink[Len(sink)].error, tolerance)
    ELSE printed = "converged"

Restart ==
    /\ pc = "done"
    /\ run = 1
    /\ engine \in {"newton", "fixed_point", "bisection"}
    /\ written
    /\ ReportedConverged
    /\ \E w \in RestartHalfWidths :
          /\ engine = "bisection" \/ w = <<1, 1>>
          /\ locals' = IF engine = "bisection"
                       THEN EntryLocals(engine, func, Sub(ReportedRoot, w),
                                        Add(ReportedRoot, w))
                       ELSE EntryLocals(engine, func, ReportedRoot, ReportedRoot)
    /\ run' = 2
    /\ pc' = "entry"
    /\ i' = 0
    /\ iterations' = <<>>
    /\ rawError' = <<>>
    /\ printed' = "none"
    /\ root' = NA
    /\ warned' = FALSE
    /\ written' = FALSE
    /\ sink' = <<>>
    /\ UNCHANGED <<engine, func, tolerance, max_iter>>

Next ==
    \/ NextBisection
    \/ NextFalsePosition
    \/ NextSecant
    \/ NextNewton
    \/ NextFixedPoint
    \/ Restart

Spec == Init /\ [][Next]_vars

(***************************************************************************)
(* Properties.                                                             *)
(***************************************************************************)
Finished == pc \in {"write", "done"}

\* the records appended before the loop
SeedRecords ==
    CASE engine \in {"secant", "false_position"} -> 2
      [] engine = "fixed_point" -> 1
      [] OTHER -> 0

\* the records appended by the loop
LoopRecords == Len(iterations) - SeedRecords

\* the stop test of the last loop iteration that appended a record
LastStopMet ==
    CASE engine = "bisection" ->
             Less(locals.error, tolerance) \/ IsZero(locals.fpn)
      [] engine = "newton" -> Less(locals.step, tolerance)
      [] OTHER -> Less(rawError[Len(rawError)], tolerance)

\* C1: in bisection the bracket-adjustment search that precedes the main
\* loop always comes to an end: it never reaches a state in which the test of
\* the loop holds and its body leaves both a and b as they are, from where
\* the loop runs forever.
C1_AdjustmentEnds ==
    (engine = "bisection" /\ pc = "entry"
       /\ NotBracketed(func, locals.a, locals.b)) =>
        (AddHalf(locals.a) # locals.a \/ SubHalf(locals.b) # locals.b)

\* C2 as stated: in every engine the k-th record (counting from 0) carries
\* index k.
C2_IndexFromZero ==
    \A k \in 1..Len(iterations) : iterations[k].n = k - 1

\* C2 as amended: consecutive records carry consecutive indices; the first
\* index is 1 in bisection and 0 in the other four engines.
C2_IndexConsecutive ==
    \A k \in 1..Len(iterations) :
        iterations[k].n = (k - 1) + (IF engine = "bisection" THEN 1 ELSE 0)

C2_Witness ==
    /\ engine = "bisection"
    /\ Len(iterations) >= 2
    /\ iterations[1].n = 1

\* C3: in bisection's main loop, immediately before the midpoint is
\* computed, an <= pn <= bn and f(an), f(bn) have strictly opposite signs.
C3_BracketOrdered ==
    (engine = "bisection" /\ pc = "loop") =>
        LET pn == Midpoint(locals.an, locals.bn)
        IN  /\ ~Less(pn, locals.an)
            /\ ~Less(locals.bn, pn)
            /\ Less(Mul(Apply(func, locals.an), Apply(func, locals.bn)), Zero)

\* C4: whatever the outcome, the records accumulated before the run ended
\* are written out.
C4_TraceDelivered ==
    (pc = "done" /\ Len(iterations) >= 1) => (written /\ sink = iterations)

\* C5 as stated: with max_iter = 1 a run ends converged only if the
\* exact-zero test f(p) == 0 fires on the first evaluated point (and with the
\* iteration-cap message otherwise).
C5_CapUnlessExactZero ==
    (max_iter = 1 /\ pc = "done" /\ printed = "converged") =>
        /\ engine = "bisection"
        /\ Len(iterations) = 1
        /\ IsZero(locals.fpn)

\* C5 as amended: with max_iter = 1 the main loop appends at most one
\* record; the run reports converged exactly when that iteration's stop test
\* holds, a failure only when a guard fires before any record, the cap when
\* the one iteration did not meet the stop test; fixed point prints nothing.
C5_OneIteration ==
    (max_iter = 1 /\ Finished) =>
        /\ LoopRecords <= 1
        /\ printed = "maxiter" => (LoopRecords = 1 /\ ~LastStopMet)
        /\ printed = "converged" => (LoopRecords = 1 /\ LastStopMet)
        /\ printed \in {"divzero", "zeroderiv"} => LoopRecords = 0
        /\ printed = "none" => engine = "fixed_point"

C5_Witness ==
    /\ max_iter = 1
    /\ pc = "done"
    /\ engine = "bisection"
    /\ printed = "converged"
    /\ ~IsZero(locals.fpn)

\* C6 as stated: in every engine the cap is reported exactly when all
\* max_iter iterations ran and the last one did not meet the stop test.
C6_CapReportedByAll ==
    pc = "done" =>
        (printed = "maxiter" <=> (LoopRecords = max_iter /\ ~LastStopMet))

\* C6 as amended: bisection, false position, secant and Newton print exactly
\* one outcome; the cap exactly when all max_iter iterations ran and the last
\* one did not meet the stop test, converged exactly when the last iteration
\* met it.  The fixed-point engine prints no outcome.
C6_CapReportedByPrinters ==
    Finished =>
        IF engine = "fixed_point"
        THEN printed = "none"
        ELSE /\ printed \in {"converged", "maxiter", "divzero", "zeroderiv"}
             /\ printed = "maxiter" <=> (LoopRecords = max_iter /\ ~LastStopMet)
             /\ printed = "converged" <=> (LoopRecords >= 1 /\ LastStopMet)

C6_Witness ==
    /\ pc = "done"
    /\ engine = "secant"
    /\ max_iter >= 2
    /\ LoopRecords = max_iter
    /\ printed = "converged"

\* C7 as stated: false position started on a strict sign change keeps
\* f(current_a), f(current_b) of strictly opposite signs.
C7_StrictSignChange ==
    (engine = "false_position" /\ pc # "entry" /\ ~warned) =>
        Less(Mul(Apply(func, locals.current_a), Apply(func, locals.current_b)),
             Zero)

\* C7 as amended: started on a strict sign change, f(current_a) and
\* f(current_b) keep strictly opposite signs unless the newest estimate is an
\* exact zero of f, which then becomes current_a; every update replaces
\* exactly one endpoint by p_next (b when f(a)*f(p_next) < 0, else a).
C7_SignChangeKept ==
    /\ [](  (engine = "false_position" /\ pc # "entry" /\ ~warned) =>
              \/ Less(Mul(Apply(func, locals.current_a),
                          Apply(func, locals.current_b)), Zero)
              \/ /\ IsZero(Apply(func, locals.current_a))
                 /\ locals.current_a = locals.p_prev  )
    /\ [][ (engine = "false_position" /\ pc = "loop" /\ ~warned /\ i' = i + 1) =>
              LET p_next == locals'.p_prev
                  ca == locals.current_a
                  cb == locals.current_b
              IN  /\ (locals'.current_a = ca) # (locals'.current_b = cb)
                  /\ IF Less(Mul(Apply(func, ca), Apply(func, p_next)), Zero)
                     THEN locals'.current_b = p_next /\ locals'.current_a = ca
                     ELSE locals'.current_a = p_next /\ locals'.current_b = cb
         ]_vars

C7_Witness ==
    /\ engine = "false_position"
    /\ ~warned
    /\ pc = "loop"
    /\ i >= 4
    /\ locals.current_a # locals.a
    /\ Less(Mul(Apply(func, locals.current_a), Apply(func, locals.current_b)),
            Zero)

\* C8 as stated, for Newton: a run seeded with the root of a converged run
\* converges within one iteration.
C8_RerunConverges ==
    (run = 2 /\ pc = "done" /\ engine = "newton") =>
        (printed = "converged" /\ Len(iterations) <= 1)

\* C8 as amended: a re-run of Newton seeded at an exact zero r of f with
\* f'(r) # 0, of fixed point seeded at an exact fixed point of g, or of
\* bisection whose main loop starts on a bracket with an exact zero as its
\* midpoint, converges in its first iteration.
C8_RerunAtExactRoot ==
    (run = 2 /\ Finished) =>
        CASE engine = "newton" ->
                 (IsZero(Apply(func, locals.x0))
                    /\ ~IsZero(Apply(locals.d_func, locals.x0)))
                 => (printed = "converged" /\ Len(iterations) = 1)
          [] engine = "fixed_point" ->
                 (Apply(func, locals.p0) = locals.p0)
                 => (Len(iterations) = 2 /\ LastStopMet)
          [] engine = "bisection" ->
                 IsZero(Apply(func, Midpoint(locals.a, locals.b)))
                 => (printed = "converged" /\ Len(iterations) = 1)
          [] OTHER -> TRUE

C8_Witness ==
    /\ run = 2
    /\ pc = "done"
    /\ engine = "newton"
    /\ IsZero(Apply(func, locals.x0))
    /\ printed = "converged"
    /\ Len(iterations) = 1

\* C9: in bisection the unrounded error of every iteration after the first
\* is exactly half the error of the iteration before.
C9_ErrorHalves ==
    engine = "bisection" =>
        \A k \in 2..Len(rawError) :
            Mul(rawError[k], <<2, 1>>) = rawError[k - 1]

C9_Witness ==
    /\ engine = "bisection"
    /\ Len(rawError) >= 3
    /\ Less(Zero, rawError[3])

\* C10 as stated: a record whose unrounded error is below the tolerance is
\* the last record of the trace, the seeded records included.
C10_BelowToleranceIsLast ==
    \A k \in 1..(Len(rawError) - 1) :
        ~(rawError[k] # NA /\ Less(rawError[k], tolerance))

\* C10 as amended: a record whose unrounded error is below the tolerance is
\* the last record of the trace, except the seeded record 1 of secant and
\* false position, whose error |p1 - p0| is never compared with the
\* tolerance.
C10_BelowToleranceIsLastInLoop ==
    \A k \in 1..(Len(rawError) - 1) :
        (rawError[k] # NA /\ Less(rawError[k], tolerance)) =>
            (engine \in {"secant", "false_position"} /\ k = 2)

C10_Witness ==
    /\ engine = "secant"
    /\ pc = "done"
    /\ Len(rawError) = 4
    /\ ~Less(rawError[2], tolerance)
    /\ ~Less(rawError[3], tolerance)
    /\ Less(rawError[4], tolerance)
====
